---- MODULE Spec2Model ----
(***************************************************************************)
(* Pyrobase (src/src/main.rs): the App record, its message ring buffer,    *)
(* the save file and the event loop of run_app, as a state machine.        *)
(*                                                                         *)
(* A String is a sequence of one-character strings.  Option<T> is a        *)
(* sequence of length 0 (None) or 1 (Some); Option<Tool> is the tool's     *)
(* name or "None".  One iteration of run_app's loop is two steps: the      *)
(* poll step (pc = "poll": one event is handled, or the poll times out)    *)
(* and the tick step (pc = "tick": the elapsed-time test of line 331).     *)
(***************************************************************************)
EXTENDS Integers, Sequences, FiniteSets, TLC

(***************************************************************************)
(* Bounds of the model.                                                    *)
(***************************************************************************)
\* the ring capacity: the literal 1000 of add_message (main.rs:202, 204);
\* the model is parametric in it and is checked for small capacities
Capacity == 2
\* the number of lines submitted with Enter over a behaviour
MaxSubmits == 1
\* the resource counters are followed up to this value
MaxCount == 2
\* the number of times the program is started again after a quit
MaxRestarts == 1
\* the largest value of a counter: u64::MAX of Resources (main.rs:60-65),
\* scaled to a width the checker can enumerate
U64Max == 15

(***************************************************************************)
(* Strings, str::trim and str::to_lowercase.                               *)
(***************************************************************************)
EmptyStr == << >>

\* the lines a player types in the model, key by key
Lines ==
  { <<"c","o","l","l","e","c","t">>,
    <<"c","r","a","f","t">>,
    <<"M","i","n","e"," ">>,
    <<"h","e","l","p">>,
    <<"q">>,
    <<" ","Q"," ">>,
    <<"n">>,
    <<"1">>,
    <<"2">>,
    <<"3">> }

Prefixes ==
  UNION { { SubSeq(l, 1, n) : n \in 0..Len(l) } : l \in Lines }

Chars == UNION { { l[i] : i \in 1..Len(l) } : l \in Lines }

IsWhitespace(c) == c = " "

LowerChar(c) ==
  CASE c = "M" -> "m"
    [] c = "Q" -> "q"
    [] OTHER   -> c

to_lowercase(s) == [i \in 1..Len(s) |-> LowerChar(s[i])]

RECURSIVE trim_start(_)
trim_start(s) ==
  IF s # EmptyStr /\ IsWhitespace(Head(s)) THEN trim_start(Tail(s)) ELSE s

RECURSIVE trim_end(_)
trim_end(s) ==
  IF s # EmptyStr /\ IsWhitespace(s[Len(s)])
    THEN trim_end(SubSeq(s, 1, Len(s) - 1))
    ELSE s

trim(s) == trim_end(trim_start(s))

(***************************************************************************)
(* The data of main.rs.                                                    *)
(***************************************************************************)
None == << >>
Some(x) == << x >>

Tools ==
  {"Flamestarter", "BlazeHammer", "MoltenCutter", "Pyrodrill",
   "FireManipulator", "PhoenixBeacon"}

Areas ==
  {"ScorchedPlains", "EmberFields", "FlameforgeRuins", "InfernoWells",
   "PyroNexus"}

ZeroResources ==
  [firestone |-> 0, emberash |-> 0, heatcores |-> 0, sulfur_ore |-> 0,
   charcoal_essence |-> 0, ashen_dust |-> 0]

StoredMessage(content, color) == [content |-> content, color |-> color]

WelcomeMessage ==
  StoredMessage("Welcome to Pyrobase. Type 'help' for commands.", "Yellow")

\* App.commands, as App::new sets it
commands ==
  << <<"c","o","l","l","e","c","t">>,
     <<"m","i","n","e">>,
     <<"e","x","p","l","o","r","e">>,
     <<"c","r","a","f","t">>,
     <<"q","u","i","t">> >>

\* App::new equips a mining tool
NewApp_hammer ==
  [state |-> "Home",
   input |-> EmptyStr,
   resources |-> ZeroResources,
   last_command |-> EmptyStr,
   game_slots |-> <<None, None, None>>,
   current_tool |-> "BlazeHammer",
   current_area |-> "ScorchedPlains",
   messages |-> <<WelcomeMessage>>,
   message_index |-> 0]

\* the App that App::new returns
NewApp ==
  [state |-> "Home",
   input |-> EmptyStr,
   resources |-> ZeroResources,
   last_command |-> EmptyStr,
   game_slots |-> <<None, None, None>>,
   current_tool |-> "Flamestarter",
   current_area |-> "ScorchedPlains",
   messages |-> <<WelcomeMessage>>,
   message_index |-> 0]

\* the outcomes of `x += d` on a u64: the sum, or on overflow the wrapped
\* sum (release build) or a panic (debug build)
Panic == -1
AddAssign(x, d) ==
  IF x + d <= U64Max THEN {x + d} ELSE {(x + d) % (U64Max + 1), Panic}

(***************************************************************************)
(* App::add_message on the pair (messages, message_index).                 *)
(***************************************************************************)
\* add_message with a cursor that a full log does not advance
add_message_stuck(msgs, index, content, color) ==
  IF Len(msgs) >= Capacity
    THEN LET i == index % Capacity
         IN  IF i < Len(msgs)
               THEN [messages |-> [msgs EXCEPT ![i + 1] =
                                     StoredMessage(content, color)],
                     message_index |-> i]
               ELSE [messages |-> Append(msgs, StoredMessage(content, color)),
                     message_index |-> i]
    ELSE [messages |-> Append(msgs, StoredMessage(content, color)),
          message_index |-> (Len(msgs) + 1) - 1]

add_message(msgs, index, content, color) ==
  IF Len(msgs) >= Capacity
    THEN LET i == (index + 1) % Capacity
         IN  IF i < Len(msgs)
               THEN [messages |-> [msgs EXCEPT ![i + 1] =
                                     StoredMessage(content, color)],
                     message_index |-> i]
               ELSE [messages |-> Append(msgs, StoredMessage(content, color)),
                     message_index |-> i]
    ELSE [messages |-> Append(msgs, StoredMessage(content, color)),
          message_index |-> (Len(msgs) + 1) - 1]

\* visible_messages of ui: messages.iter().rev().take(n)
Reverse(s) == [i \in 1..Len(s) |-> s[Len(s) + 1 - i]]
Take(s, n) == SubSeq(s, 1, IF n < Len(s) THEN n ELSE Len(s))
visible_messages(msgs, n) == Take(Reverse(msgs), n)

\* App::get_autocomplete_suggestions: the commands that start with input
starts_with(s, p) == Len(p) <= Len(s) /\ SubSeq(s, 1, Len(p)) = p
get_autocomplete_suggestions(inp) ==
  SelectSeq(commands, LAMBDA cmd : starts_with(cmd, inp))

\* [String]::join
RECURSIVE join(_, _)
join(list, sep) ==
  IF list = << >> THEN EmptyStr
  ELSE IF Len(list) = 1 THEN list[1]
  ELSE list[1] \o sep \o join(Tail(list), sep)

\* ui lists the suggestions for the empty input too
suggestions_unguarded(inp) ==
  <<" ", "[">> \o join(get_autocomplete_suggestions(inp), <<",", " ">>)
               \o <<"]">>

\* ui: the text drawn after the input and the cursor
suggestions(inp) ==
  IF inp = EmptyStr
    THEN EmptyStr
    ELSE <<" ", "[">> \o join(get_autocomplete_suggestions(inp), <<",", " ">>)
                      \o <<"]">>

(***************************************************************************)
(* The save file.                                                          *)
(***************************************************************************)
\* SAVE_FILE cannot be read or parsed
NoFile == [kind |-> "unreadable"]
FileOf(app) == [kind |-> "app", app |-> app]

\* App::load_or_new
load_or_new(file) == IF file.kind = "app" THEN file.app ELSE NewApp

\* a save file that holds game slots, which no run of this program writes
SlotBlaze ==
  [resources |-> [ZeroResources EXCEPT !.firestone = 1, !.heatcores = 2],
   last_command |-> <<"h","e","l","p">>,
   unlocked_tools |-> <<"BlazeHammer", "Flamestarter">>,
   current_area |-> "EmberFields"]

SlotDrill ==
  [resources |-> [ZeroResources EXCEPT !.emberash = 1],
   last_command |-> <<"M","i","n","e"," ">>,
   unlocked_tools |-> <<"Pyrodrill">>,
   current_area |-> "InfernoWells"]

SlotNoTool ==
  [resources |-> ZeroResources,
   last_command |-> EmptyStr,
   unlocked_tools |-> << >>,
   current_area |-> "PyroNexus"]

\* its App is at the menu, with values of its own in the live fields
SlotFile ==
  FileOf([NewApp EXCEPT
            !.resources = [ZeroResources EXCEPT !.charcoal_essence = 1,
                                                !.ashen_dust = 2],
            !.last_command = <<"n">>,
            !.current_tool = "MoltenCutter",
            !.current_area = "FlameforgeRuins",
            !.game_slots =
              <<Some(SlotBlaze), Some(SlotDrill), Some(SlotNoTool)>>])

InitialFiles == {NoFile, SlotFile}

\* a save file whose slot 1 holds counters at and next to u64::MAX
SlotMax ==
  [resources |-> [ZeroResources EXCEPT !.firestone = U64Max,
                                       !.emberash = U64Max - 1],
   last_command |-> EmptyStr,
   unlocked_tools |-> <<"BlazeHammer">>,
   current_area |-> "EmberFields"]

MaxFile == FileOf([NewApp EXCEPT !.game_slots = <<Some(SlotMax), None, None>>])

(***************************************************************************)
(* The state: the fields of App, the save file, the position in run_app,   *)
(* and history variables.                                                  *)
(***************************************************************************)
VARIABLES
  state,          \* App.state: "Home" or "Game"
  input,          \* App.input
  resources,      \* App.resources
  last_command,   \* App.last_command
  game_slots,     \* App.game_slots
  current_tool,   \* App.current_tool
  current_area,   \* App.current_area
  messages,       \* App.messages
  message_index,  \* App.message_index
  disk,           \* the content of SAVE_FILE
  pc,             \* "poll", "tick", "done" (run_app returned), "panicked"
  due,            \* whether last_tick.elapsed() >= tick_rate holds when
                  \*   this iteration gets to line 331 (FALSE outside of it)
  ev,             \* history: the event or step taken last
  newest,         \* history: the appended messages, newest first, at most
                  \*   Capacity of them
  saved_newest,   \* history: newest, as it was when SAVE_FILE was written
  idle,           \* history: Some([k, base]) after k ticks without input
                  \*   since the session was InGame with firestone = 0
  submits,        \* history: the number of lines submitted
  restarts        \* history: the number of restarts

appVars ==
  <<state, input, resources, last_command, game_slots, current_tool,
    current_area, messages, message_index>>

vars ==
  <<state, input, resources, last_command, game_slots, current_tool,
    current_area, messages, message_index, disk, pc, due, ev, newest,
    saved_newest, idle, submits, restarts>>

\* the App value that the variables hold
CurrentApp ==
  [state |-> state,
   input |-> input,
   resources |-> resources,
   last_command |-> last_command,
   game_slots |-> game_slots,
   current_tool |-> current_tool,
   current_area |-> current_area,
   messages |-> messages,
   message_index |-> message_index]

\* App::save
save(app) == FileOf(app)

\* the variables take the fields of app
BecomeApp(app) ==
  /\ state' = app.state
  /\ input' = app.input
  /\ resources' = app.resources
  /\ last_command' = app.last_command
  /\ game_slots' = app.game_slots
  /\ current_tool' = app.current_tool
  /\ current_area' = app.current_area
  /\ messages' = app.messages
  /\ message_index' = app.message_index

\* the counter values the model follows
Followed(x) == x < MaxCount \/ x > U64Max - MaxCount

\* history: the run of ticks without input starts over
IdleFrom(st, res) ==
  IF st = "Game" /\ res.firestone = 0
    THEN Some([k |-> 0, base |-> res])
    ELSE None

\* history: the newest-first list after one more message
Logged(list, content, color) ==
  Take(<<StoredMessage(content, color)>> \o list, Capacity)

\* main: App::load_or_new, then run_app
InitFrom(files) ==
  /\ disk \in files
  /\ state = load_or_new(disk).state
  /\ input = load_or_new(disk).input
  /\ resources = load_or_new(disk).resources
  /\ last_command = load_or_new(disk).last_command
  /\ game_slots = load_or_new(disk).game_slots
  /\ current_tool = load_or_new(disk).current_tool
  /\ current_area = load_or_new(disk).current_area
  /\ messages = load_or_new(disk).messages
  /\ message_index = load_or_new(disk).message_index
  /\ pc = "poll"
  /\ due = FALSE
  /\ ev = "Start"
  /\ newest = visible_messages(load_or_new(disk).messages, Capacity)
  /\ saved_newest = newest
  /\ idle = IdleFrom(state, resources)
  /\ submits = 0
  /\ restarts = 0

Init == InitFrom(InitialFiles)

\* an event was read at line 235 and handled: on to line 331, where the
\* tick period has elapsed or has not
Handled(e) ==
  /\ pc' = "tick"
  /\ due' \in BOOLEAN
  /\ ev' = e
  /\ idle' = IdleFrom(state', resources')
  /\ UNCHANGED <<disk, saved_newest, restarts>>

(***************************************************************************)
(* AppState::Home                                                          *)
(***************************************************************************)
\* history: the name of the step that selects slot i
SlotKey(i) == CASE i = 1 -> "Slot1" [] i = 2 -> "Slot2" [] OTHER -> "Slot3"

\* every slot key loads game slot 1
HomeSelectSlot_first(i) ==
  /\ pc = "poll"
  /\ state = "Home"
  /\ state' = "Game"
  /\ IF game_slots[1] # None
       THEN LET slot == game_slots[1][1]
            IN  /\ resources' = slot.resources
                /\ last_command' = slot.last_command
                /\ current_tool' = IF slot.unlocked_tools = << >>
                                     THEN "None"
                                     ELSE Head(slot.unlocked_tools)
                /\ current_area' = slot.current_area
       ELSE UNCHANGED <<resources, last_command, current_tool, current_area>>
  /\ UNCHANGED <<input, game_slots, messages, message_index, newest, submits>>
  /\ Handled(SlotKey(i))

\* KeyCode::Char('1'), Char('2'), Char('3'): load game slot i
HomeSelectSlot(i) ==
  /\ pc = "poll"
  /\ state = "Home"
  /\ state' = "Game"
  /\ IF game_slots[i] # None
       THEN LET slot == game_slots[i][1]
            IN  /\ resources' = slot.resources
                /\ last_command' = slot.last_command
                /\ current_tool' = IF slot.unlocked_tools = << >>
                                     THEN "None"
                                     ELSE Head(slot.unlocked_tools)
                /\ current_area' = slot.current_area
       ELSE UNCHANGED <<resources, last_command, current_tool, current_area>>
  /\ UNCHANGED <<input, game_slots, messages, message_index, newest, submits>>
  /\ Handled(SlotKey(i))

\* the new game keeps the resources of the menu
HomeNewGame_keeps ==
  /\ pc = "poll"
  /\ state = "Home"
  /\ state' = "Game"
  /\ last_command' = EmptyStr
  /\ current_tool' = "Flamestarter"
  /\ current_area' = "ScorchedPlains"
  /\ UNCHANGED <<input, resources, game_slots, messages, message_index,
                 newest, submits>>
  /\ Handled("New")

\* KeyCode::Char('n'): start new game
HomeNewGame ==
  /\ pc = "poll"
  /\ state = "Home"
  /\ state' = "Game"
  /\ resources' = ZeroResources
  /\ last_command' = EmptyStr
  /\ current_tool' = "Flamestarter"
  /\ current_area' = "ScorchedPlains"
  /\ UNCHANGED <<input, game_slots, messages, message_index, newest, submits>>
  /\ Handled("New")

\* the keys that neither state handles by name
OtherKeys == {"Esc"}

\* the keys that Home ignores: every key but the characters 1, 2, 3 and n
HomeIgnoredKeys == OtherKeys \cup {"Enter", "Backspace", "Char"}

\* any other key in Home starts the game
HomeOtherKey_starts(key) ==
  /\ pc = "poll"
  /\ state = "Home"
  /\ state' = "Game"
  /\ UNCHANGED <<input, resources, last_command, game_slots, current_tool,
                 current_area, messages, message_index, newest, submits>>
  /\ Handled(key)

\* any other key in Home: `_ => {}`
HomeOtherKey(key) ==
  /\ pc = "poll"
  /\ state = "Home"
  /\ UNCHANGED <<appVars, newest, submits>>
  /\ Handled(key)

(***************************************************************************)
(* AppState::Game                                                          *)
(***************************************************************************)
\* the key n starts a new game InGame as it does at the menu
GameChar_menu(c) ==
  /\ pc = "poll"
  /\ state = "Game"
  /\ Append(input, c) \in Prefixes
  /\ input' = Append(input, c)
  /\ resources' = IF c = "n" THEN ZeroResources ELSE resources
  /\ UNCHANGED <<state, last_command, game_slots, current_tool,
                 current_area, messages, message_index, newest, submits>>
  /\ Handled("Char")

\* KeyCode::Char(c): app.input.push(c)
GameChar(c) ==
  /\ pc = "poll"
  /\ state = "Game"
  /\ Append(input, c) \in Prefixes
  /\ input' = Append(input, c)
  /\ UNCHANGED <<state, resources, last_command, game_slots, current_tool,
                 current_area, messages, message_index, newest, submits>>
  /\ Handled("Char")

\* KeyCode::Backspace: app.input.pop()
GameBackspace ==
  /\ pc = "poll"
  /\ state = "Game"
  /\ input' = IF input = EmptyStr
                THEN input
                ELSE SubSeq(input, 1, Len(input) - 1)
  /\ UNCHANGED <<state, resources, last_command, game_slots, current_tool,
                 current_area, messages, message_index, newest, submits>>
  /\ Handled("Backspace")

\* the process panics: run_app is left without a save
Panicked ==
  /\ pc' = "panicked"
  /\ due' = FALSE
  /\ UNCHANGED <<appVars, disk, newest, saved_newest, idle, restarts>>

\* the match without the trim
Command_untrimmed(inp) == to_lowercase(inp)

\* the match of lines 294-322 is on app.input.trim().to_lowercase()
Command(inp) == to_lowercase(trim(inp))

Quit == <<"q","u","i","t">>
Q == <<"q">>
Collect == <<"c","o","l","l","e","c","t">>
Mine == <<"m","i","n","e">>
Help == <<"h","e","l","p">>

\* what an arm of the match does: whether it saves and returns, what it
\* adds to firestone and to emberash, and the messages it logs, in order
NoEffect == [quit |-> FALSE, firestone |-> 0, emberash |-> 0, log |-> << >>]

\* "q" | "quit"
quit_arm == [NoEffect EXCEPT !.quit = TRUE]

\* "collect" with the gain on the wrong counter
collect_arm_emberash ==
  [NoEffect EXCEPT !.emberash = 1,
                   !.log = <<StoredMessage("Collected 1 firestone", "Green")>>]

\* "collect"
collect_arm ==
  [NoEffect EXCEPT !.firestone = 1,
                   !.log = <<StoredMessage("Collected 1 firestone", "Green")>>]

\* "mine"
MiningTools == {"BlazeHammer", "Pyrodrill"}
\* "mine" without the test of the tool
mine_arm_untooled(tool) ==
  [NoEffect EXCEPT
     !.emberash = 2,
     !.log = <<StoredMessage("Mined 2 emberash", "Green")>>]

mine_arm(tool) ==
  IF tool \in MiningTools
    THEN [NoEffect EXCEPT
            !.emberash = 2,
            !.log = <<StoredMessage("Mined 2 emberash", "Green")>>]
    ELSE [NoEffect EXCEPT
            !.log = <<StoredMessage("You need better mining tools!", "Red")>>]

\* "help"
help_arm ==
  [NoEffect EXCEPT
     !.log = <<StoredMessage("Available commands:", "Cyan"),
               StoredMessage("collect, mine, explore, craft, quit", "Cyan")>>]

\* ""
empty_arm == NoEffect

\* _ without a message
unknown_arm_silent == NoEffect

\* _
unknown_arm ==
  [NoEffect EXCEPT
     !.log = <<StoredMessage("Unknown command. Type 'help' for commands.",
                             "Red")>>]

match_command(cmd, tool) ==
  CASE cmd \in {Q, Quit} -> quit_arm
    [] cmd = Collect     -> collect_arm
    [] cmd = Mine        -> mine_arm(tool)
    [] cmd = Help        -> help_arm
    [] cmd = EmptyStr    -> empty_arm
    [] OTHER             -> unknown_arm

\* the calls of add_message that an arm makes, in order
RECURSIVE add_messages(_, _, _)
add_messages(msgs, index, log) ==
  IF log = << >>
    THEN [messages |-> msgs, message_index |-> index]
    ELSE LET one == add_message(msgs, index, Head(log).content,
                                Head(log).color)
         IN  add_messages(one.messages, one.message_index, Tail(log))

\* history: the newest-first list after the messages of log
RECURSIVE LoggedAll(_, _)
LoggedAll(list, log) ==
  IF log = << >>
    THEN list
    ELSE LoggedAll(Logged(list, Head(log).content, Head(log).color),
                   Tail(log))

\* the outcomes of `x += d`, where an arm that adds nothing leaves x alone
Gain(x, d) == IF d = 0 THEN {x} ELSE AddAssign(x, d)

\* KeyCode::Enter
GameEnter ==
  /\ pc = "poll"
  /\ state = "Game"
  /\ submits < MaxSubmits
  /\ submits' = submits + 1
  /\ ev' = "Enter"
  /\ LET arm == match_command(Command(input), current_tool)
     IN  IF arm.quit
           THEN \* app.save() sees last_command = input, the input not
                \* cleared; run_app returns before line 331
                /\ last_command' = input
                /\ disk' = save([CurrentApp EXCEPT !.last_command = input])
                /\ saved_newest' = newest
                /\ pc' = "done"
                /\ due' = FALSE
                /\ UNCHANGED <<state, input, resources, game_slots,
                               current_tool, current_area, messages,
                               message_index, newest, idle, restarts>>
           ELSE /\ arm.firestone > 0 => Followed(resources.firestone)
                /\ arm.emberash > 0 => Followed(resources.emberash)
                /\ \E f \in Gain(resources.firestone, arm.firestone),
                      m \in Gain(resources.emberash, arm.emberash) :
                     IF Panic \in {f, m}
                       THEN Panicked
                       ELSE LET log == add_messages(messages, message_index,
                                                    arm.log)
                            IN  /\ resources' =
                                     [resources EXCEPT !.firestone = f,
                                                       !.emberash = m]
                                /\ messages' = log.messages
                                /\ message_index' = log.message_index
                                /\ newest' = LoggedAll(newest, arm.log)
                                /\ last_command' = input
                                /\ input' = EmptyStr
                                /\ UNCHANGED <<state, game_slots,
                                               current_tool, current_area>>
                                /\ pc' = "tick"
                                /\ due' \in BOOLEAN
                                /\ idle' = IdleFrom(state', resources')
                                /\ UNCHANGED <<disk, saved_newest, restarts>>

\* any other key in Game ends run_app
GameOtherKey_exits(key) ==
  /\ pc = "poll"
  /\ state = "Game"
  /\ pc' = "done"
  /\ due' = FALSE
  /\ ev' = key
  /\ UNCHANGED <<appVars, disk, newest, saved_newest, idle, submits,
                 restarts>>

\* any other key in Game: `_ => {}`
GameOtherKey(key) ==
  /\ pc = "poll"
  /\ state = "Game"
  /\ UNCHANGED <<appVars, newest, submits>>
  /\ Handled(key)

(***************************************************************************)
(* The rest of the loop.                                                   *)
(***************************************************************************)
\* event::read() returns an event that is not a key (mouse, resize)
NonKeyEvent ==
  /\ pc = "poll"
  /\ UNCHANGED <<appVars, newest, submits>>
  /\ Handled("NonKey")

\* poll(timeout) returns false: the tick period has elapsed
PollTimeout ==
  /\ pc = "poll"
  /\ pc' = "tick"
  /\ due' = TRUE
  /\ ev' = "Timeout"
  /\ UNCHANGED <<appVars, disk, newest, saved_newest, idle, submits,
                 restarts>>

\* a tick that counts twice
TickGain_twice == 1 + 1

\* app.resources.firestone += 1 of the tick
TickGain == 1

\* the tick is applied only in an iteration whose poll timed out
Tick_unlessEvent ==
  /\ pc = "tick"
  /\ due
  /\ IF state = "Game" /\ ev = "Timeout"
       THEN /\ Followed(resources.firestone)
            /\ \E r \in AddAssign(resources.firestone, TickGain) :
                 IF r = Panic
                   THEN Panicked
                   ELSE /\ resources' = [resources EXCEPT !.firestone = r]
                        /\ pc' = "poll"
                        /\ due' = FALSE
                        /\ idle' = IF idle = None
                                     THEN None
                                     ELSE Some([idle[1] EXCEPT !.k = @ + 1])
                        /\ UNCHANGED <<state, input, last_command, game_slots,
                                       current_tool, current_area, messages,
                                       message_index, disk, newest,
                                       saved_newest, restarts>>
       ELSE /\ pc' = "poll"
            /\ due' = FALSE
            /\ UNCHANGED <<appVars, disk, newest, saved_newest, idle,
                           restarts>>
  /\ ev' = IF ev = "Timeout" THEN "Tick" ELSE "EventTick"
  /\ UNCHANGED submits

\* lines 331-338 when last_tick.elapsed() >= tick_rate: the passive tick
\* (history: "EventTick" is the tick of an iteration that handled an event)
Tick ==
  /\ pc = "tick"
  /\ due
  /\ IF state = "Game"
       THEN /\ Followed(resources.firestone)
            /\ \E r \in AddAssign(resources.firestone, TickGain) :
                 IF r = Panic
                   THEN Panicked
                   ELSE /\ resources' = [resources EXCEPT !.firestone = r]
                        /\ pc' = "poll"
                        /\ due' = FALSE
                        /\ idle' = IF idle = None
                                     THEN None
                                     ELSE Some([idle[1] EXCEPT !.k = @ + 1])
                        /\ UNCHANGED <<state, input, last_command, game_slots,
                                       current_tool, current_area, messages,
                                       message_index, disk, newest,
                                       saved_newest, restarts>>
       ELSE /\ pc' = "poll"
            /\ due' = FALSE
            /\ UNCHANGED <<appVars, disk, newest, saved_newest, idle,
                           restarts>>
  /\ ev' = IF ev = "Timeout" THEN "Tick" ELSE "EventTick"
  /\ UNCHANGED submits

\* line 331 when last_tick.elapsed() < tick_rate: an event arrived before
\* the poll timeout ran out, and the handling took less than the rest of it
NoTick ==
  /\ pc = "tick"
  /\ ~due
  /\ pc' = "poll"
  /\ due' = FALSE
  /\ ev' = "NoTick"
  /\ UNCHANGED <<appVars, disk, newest, saved_newest, idle, submits,
                 restarts>>

\* the program is started again: main calls App::load_or_new
Restart ==
  /\ pc \in {"done", "panicked"}
  /\ restarts < MaxRestarts
  /\ restarts' = restarts + 1
  /\ BecomeApp(load_or_new(disk))
  /\ pc' = "poll"
  /\ due' = FALSE
  /\ ev' = "Restart"
  /\ newest' = IF disk.kind = "app"
                 THEN saved_newest
                 ELSE visible_messages(NewApp.messages, Capacity)
  /\ idle' = IdleFrom(state', resources')
  /\ UNCHANGED <<disk, saved_newest, submits>>

Next ==
  \/ \E i \in 1..3 : HomeSelectSlot(i)
  \/ HomeNewGame
  \/ \E key \in HomeIgnoredKeys : HomeOtherKey(key)
  \/ \E c \in Chars : GameChar(c)
  \/ GameBackspace
  \/ GameEnter
  \/ \E key \in OtherKeys : GameOtherKey(key)
  \/ NonKeyEvent
  \/ PollTimeout
  \/ Tick
  \/ NoTick
  \/ Restart

Spec == Init /\ [][Next]_vars

\* the program started without a save file: the run starts from App::new
InitNew == InitFrom({NoFile})

SpecNew == InitNew /\ [][Next]_vars

\* the program started on the save file with the counters at u64::MAX
InitMax == InitFrom({MaxFile})

SpecMax == InitMax /\ [][Next]_vars

TypeOK ==
  /\ state \in {"Home", "Game"}
  /\ input \in Prefixes
  /\ pc \in {"poll", "tick", "done", "panicked"}
  /\ due \in BOOLEAN
  /\ due => pc = "tick"
  /\ Len(messages) >= 1
  /\ message_index \in 0..(Len(messages) - 1)

(***************************************************************************)
(* The properties.                                                         *)
(***************************************************************************)
\* this step is run_app handling Enter while InGame
SubmitStep == pc = "poll" /\ state = "Game" /\ ev' = "Enter"

\* a line has been submitted while InGame and the session goes on
AfterSubmit == pc = "tick" /\ state = "Game" /\ ev = "Enter"

\* the command vocabulary of the specification
Vocabulary ==
  {Collect, Mine, <<"e","x","p","l","o","r","e">>, <<"c","r","a","f","t">>,
   Help, Quit, Q}

\* C1: the log never stores more than Capacity messages, and the stored
\* messages are exactly the newest min(appended, Capacity) ones: read
\* backwards from the cursor, wrapping, the ring is the list of the appended
\* messages, newest first, so the append to a full log overwrote the oldest.
C1_RingHoldsNewest ==
  /\ Len(messages) <= Capacity
  /\ Len(messages) = Len(newest)
  /\ \A k \in 0..(Len(messages) - 1) :
       messages[((message_index - k) % Len(messages)) + 1] = newest[k + 1]

\* C1 witness: the log is full, a submitted line has wrapped it, and the
\* first message (the welcome) is the one that is gone
C1_Witness ==
  /\ AfterSubmit
  /\ Len(messages) = Capacity
  /\ \A i \in 1..Len(messages) : messages[i] # WelcomeMessage
  /\ message_index = 0

\* C2 (as claimed): for every n, the recent-messages view, the stored
\* messages reversed and cut to n, is the list of the appended messages
\* newest first, cut to n; so recent(1) is the message appended last.
C2_RecentNewestFirst ==
  \A n \in 1..Capacity : visible_messages(messages, n) = Take(newest, n)

\* C3 (as claimed): a submitted line that, trimmed and lowercased, is an
\* entry of the vocabulary is never answered with the unknown-command message.
C3_VocabularyKnown ==
  [][(SubmitStep /\ Command(input) \in Vocabulary /\ pc' # "panicked")
       => newest' # LoggedAll(newest, unknown_arm.log)]_vars

\* the text of a string of the model
RECURSIVE Text(_)
Text(s) == IF s = << >> THEN "" ELSE Head(s) \o Text(Tail(s))

\* the Levenshtein distance of the specification's CommandResolver, row by
\* row: row i holds the distances of the first i characters of a to every
\* prefix of b
Min3(x, y, z) ==
  IF x <= y /\ x <= z THEN x ELSE IF y <= z THEN y ELSE z

RECURSIVE LevRow(_, _, _, _)
LevRow(prev, ch, b, cur) ==
  IF Len(cur) = Len(b) + 1
    THEN cur
    ELSE LET j == Len(cur)
             cost == IF b[j] = ch THEN 0 ELSE 1
         IN  LevRow(prev, ch, b,
                    Append(cur, Min3(prev[j + 1] + 1, cur[j] + 1,
                                     prev[j] + cost)))

RECURSIVE LevFrom(_, _, _, _)
LevFrom(a, i, b, prev) ==
  IF i > Len(a)
    THEN prev[Len(b) + 1]
    ELSE LevFrom(a, i + 1, b, LevRow(prev, a[i], b, <<i>>))

Levenshtein(a, b) == LevFrom(a, 1, b, [j \in 1..(Len(b) + 1) |-> j - 1])

\* the vocabulary entries within distance 2 of a line
Candidates(cmd) == { v \in Vocabulary : Levenshtein(cmd, v) <= 2 }

C5_EmptyLineNoEffect ==
  [][(SubmitStep /\ \A i \in 1..Len(input) : IsWhitespace(input[i]))
       => /\ messages' = messages
          /\ message_index' = message_index
          /\ newest' = newest
          /\ resources' = resources
          /\ current_tool' = current_tool
          /\ current_area' = current_area
          /\ state' = state]_vars

\* C5 witness: a line of one blank has been submitted
C5_Witness ==
  /\ AfterSubmit
  /\ last_command = <<" ">>
  /\ input = EmptyStr

\* the log gained exactly the message m in this step
AppendedOne(m) ==
  /\ newest' = Take(<<m>> \o newest, Capacity)
  /\ Len(messages') \in {Len(messages), Len(messages) + 1}
  /\ messages'[message_index' + 1] = m
  /\ \A i \in 1..Len(messages) :
       i # message_index' + 1 => messages'[i] = messages[i]

\* C6: a submitted 'collect' while InGame increases firestone by exactly 1,
\* leaves every other counter unchanged and appends exactly one message,
\* "Collected 1 firestone", in the success colour.
C6_CollectGain ==
  [][(SubmitStep /\ Command(input) = Collect)
       => /\ resources' = [resources EXCEPT !.firestone = @ + 1]
          /\ AppendedOne(StoredMessage("Collected 1 firestone", "Green"))]_vars

\* C6 witness: 'collect' has been submitted and firestone is positive
C6_Witness ==
  /\ AfterSubmit
  /\ last_command = Collect
  /\ resources.firestone >= 1
  /\ newest[1] = StoredMessage("Collected 1 firestone", "Green")

\* C7: a submitted 'mine' increases emberash by exactly 2 when the tool is
\* BlazeHammer or Pyrodrill; with any other tool or none it changes no
\* counter and logs "You need better mining tools!" in the failure colour.
C7_MineNeedsTool ==
  [][(SubmitStep /\ Command(input) = Mine)
       => IF current_tool \in {"BlazeHammer", "Pyrodrill"}
            THEN resources' = [resources EXCEPT !.emberash = @ + 2]
            ELSE /\ resources' = resources
                 /\ AppendedOne(StoredMessage("You need better mining tools!",
                                              "Red"))]_vars

\* C7 witness: 'mine' has been submitted with the BlazeHammer and emberash
\* has grown
C7_Witness ==
  /\ AfterSubmit
  /\ Command(last_command) = Mine
  /\ current_tool = "BlazeHammer"
  /\ resources.emberash = 2
  /\ newest[1].content = "Mined 2 emberash"

\* C8: from InGame with firestone = 0, after k passive ticks with no input
\* in between firestone is exactly k and no other counter has changed.
C8_TicksCount ==
  idle # None =>
    resources = [idle[1].base EXCEPT !.firestone = idle[1].k]

\* C8 witness: two ticks have gone by without input since firestone was 0
C8_Witness ==
  /\ idle # None
  /\ idle[1].k = 2
  /\ ev = "Tick"

\* C9 (as claimed): a quit persists the session to a save slot: starting
\* again (App::load_or_new) shows the menu, and selecting some slot there
\* gives back the resources, last command, tool and area of the quit.
C9_QuitPersistsToSlot ==
  pc = "done" =>
    LET app == load_or_new(disk)
    IN  /\ app.state = "Home"
        /\ \E i \in 1..3 :
             /\ app.game_slots[i] # None
             /\ app.game_slots[i][1].resources = resources
             /\ app.game_slots[i][1].last_command = last_command
             /\ app.game_slots[i][1].current_area = current_area
             /\ app.game_slots[i][1].unlocked_tools # << >>
             /\ Head(app.game_slots[i][1].unlocked_tools) = current_tool

\* C10 (as claimed): an Escape key event, in the menu or in the game, ends
\* the session loop at once, without a save.
C10_EscapeExits ==
  [][(pc = "poll" /\ ev' = "Esc") => (pc' = "done" /\ disk' = disk)]_vars

\* C10 (amended): an Escape key event, in the menu or in the game, is
\* ignored: the loop goes on to its tick test, nothing is saved and no
\* field of the session changes.
C10_EscapeIgnored ==
  [][(pc = "poll" /\ ev' = "Esc")
       => (pc' = "tick" /\ disk' = disk /\ UNCHANGED appVars)]_vars

\* C10 witness: Escape has been pressed in the game, with a line half typed
C10_Witness ==
  /\ ev = "Esc"
  /\ pc = "tick"
  /\ state = "Game"
  /\ input # EmptyStr

\* C11: after every Enter while InGame, whichever branch was taken, the input
\* buffer is empty and last_command is the line that was submitted; so it is
\* in the state that the quit branch writes to the save file.
C11_SubmitClearsInput ==
  [][SubmitStep =>
       /\ pc' # "panicked" => (input' = EmptyStr /\ last_command' = input)
       /\ disk' # disk => /\ disk'.app.input = EmptyStr
                         /\ disk'.app.last_command = input]_vars

\* C12: in the menu, key i of 1, 2, 3 always moves the session to InGame; if
\* slot i holds a snapshot, the live resources, area and last_command become
\* the snapshot's and the tool becomes the first of its unlocked tools (no
\* tool if it lists none); if slot i is empty, all four are left unchanged.
C12_SelectSlot ==
  [][\A i \in 1..3 :
       (pc = "poll" /\ state = "Home" /\ ev' = SlotKey(i)) =>
         /\ state' = "Game"
         /\ IF game_slots[i] = None
              THEN UNCHANGED <<resources, current_tool, current_area,
                               last_command>>
              ELSE LET snapshot == game_slots[i][1]
                   IN  /\ resources' = snapshot.resources
                       /\ current_area' = snapshot.current_area
                       /\ last_command' = snapshot.last_command
                       /\ Len(snapshot.unlocked_tools) > 0 =>
                            current_tool' = snapshot.unlocked_tools[1]
                       /\ Len(snapshot.unlocked_tools) = 0 =>
                            current_tool' = "None"]_vars

\* C12 witness: slot 2 has been selected in the menu and its snapshot, which
\* differs from the live values of the menu in every field, is loaded
C12_Witness ==
  /\ ev = "Slot2"
  /\ pc = "tick"
  /\ state = "Game"
  /\ game_slots[2] = Some(SlotDrill)
  /\ resources = SlotDrill.resources
  /\ current_tool = "Pyrodrill"
  /\ current_area = "InfernoWells"
  /\ last_command = SlotDrill.last_command

\* C13: in the menu, the key n sets all six counters to zero, the tool to
\* Flamestarter and the area to ScorchedPlains and moves the session to
\* InGame, whatever the values were before.
C13_NewGameResets ==
  [][(pc = "poll" /\ state = "Home" /\ ev' = "New") =>
       /\ state' = "Game"
       /\ \A r \in DOMAIN resources' : resources'[r] = 0
       /\ DOMAIN resources' =
            {"firestone", "emberash", "heatcores", "sulfur_ore",
             "charcoal_essence", "ashen_dust"}
       /\ current_tool' = "Flamestarter"
       /\ current_area' = "ScorchedPlains"]_vars

\* C13 witness: a new game has been started from a menu whose save file held
\* other counters, another tool and another area
C13_Witness ==
  /\ ev = "New"
  /\ pc = "tick"
  /\ state = "Game"
  /\ disk.kind = "app"
  /\ disk.app.state = "Home"
  /\ disk.app.resources # ZeroResources
  /\ disk.app.current_tool # "Flamestarter"
  /\ disk.app.current_area # "ScorchedPlains"
  /\ resources = ZeroResources

\* C14: in the menu only the slot keys 1, 2, 3 and the new-game key n change
\* anything: every other key event, every event that is no key, and every
\* tick leaves the counters, the tool, the area, the message log, the input
\* buffer and the mode as they are.
C14_MenuFrame ==
  [][(state = "Home" /\ ev' \notin {SlotKey(1), SlotKey(2), SlotKey(3), "New"})
       => UNCHANGED <<resources, current_tool, current_area, messages,
                      message_index, input, state>>]_vars

\* C14 witness: a key that the menu ignores has been handled and the tick of
\* that iteration has been taken, in a menu whose counters are not zero
C14_Witness ==
  /\ ev = "EventTick"
  /\ pc = "poll"
  /\ state = "Home"
  /\ resources # ZeroResources

\* C15: in every loop iteration that gets to its tick test InGame with the
\* tick period elapsed, the passive tick is applied, firestone + 1 and
\* nothing else, whichever event the iteration has handled before; and every
\* event handled InGame after which the loop goes on leads to that test.
C15_DueTickApplied ==
  [][/\ (pc = "tick" /\ due /\ state = "Game") =>
          /\ pc' = "poll"
          /\ resources' = [resources EXCEPT !.firestone = @ + 1]
     /\ (pc = "poll" /\ state = "Game" /\ pc' \notin {"done", "panicked"}) =>
          (pc' = "tick" /\ state' = "Game")]_vars

\* C15 witness: InGame, an iteration that handled a key event has applied
\* its due tick, in a session where collect was submitted: firestone holds
\* the gain of the command and the gain of the tick
C15_Witness ==
  /\ ev = "EventTick"
  /\ pc = "poll"
  /\ state = "Game"
  /\ Command(last_command) = Collect
  /\ submits = 1
  /\ restarts = 0
  /\ disk = NoFile
  /\ resources.firestone = 2

\* C16: in no step taken while InGame (collect, mine, tick, any other
\* command or key) does a counter decrease; an increment applied to a
\* counter that cannot hold the sum saturates: it neither wraps nor ends the
\* program.
C16_CountersSaturate ==
  [][(state = "Game" /\ pc \in {"poll", "tick"}) =>
       /\ pc' # "panicked"
       /\ \A r \in DOMAIN resources : resources'[r] >= resources[r]]_vars

\* p is a prefix of s, character by character, case-sensitive
IsPrefixOf(p, s) == Len(p) <= Len(s) /\ \A k \in 1..Len(p) : s[k] = p[k]

\* the entries of App.commands that have partial as a prefix, each once, in
\* the order of App.commands
Prefixed(partial) ==
  LET matching == {i \in 1..Len(commands) : IsPrefixOf(partial, commands[i])}
      nth(j) == CHOOSE i \in matching :
                  Cardinality({k \in matching : k < i}) = j - 1
  IN  [j \in 1..Cardinality(matching) |-> commands[nth(j)]]

\* C17: for the input typed so far, the suggestions shown are exactly the
\* entries of the autocomplete vocabulary (App.commands) that have the input
\* as a case-sensitive prefix, in vocabulary order; for the empty input
\* nothing is suggested, rather than all the commands.
C17_Autocomplete ==
  suggestions(input) =
    IF input = EmptyStr
      THEN EmptyStr
      ELSE <<" ", "[">> \o join(Prefixed(input), <<",", " ">>) \o <<"]">>

\* C17 witness: InGame the letter c has been typed and the two commands that
\* start with it are suggested; the function itself finds no command for M
\* and every command for the empty input
C17_Witness ==
  /\ state = "Game"
  /\ ev = "Char"
  /\ input = <<"c">>
  /\ suggestions(input) =
       <<" ", "[", "c","o","l","l","e","c","t", ",", " ",
         "c","r","a","f","t", "]">>
  /\ get_autocomplete_suggestions(<<"M">>) = << >>
  /\ get_autocomplete_suggestions(EmptyStr) = commands

\* C18: every session begins in the menu: the App that load_or_new hands to
\* run_app is AtMenu, when it is freshly created and when it is restored
\* from the save file that a previous quit wrote.
C18_StartsAtMenu ==
  ev \in {"Start", "Restart"} => state = "Home"

\* the characters of the menu keys
MenuKeys == {"1", "2", "3", "n"}

\* C19: within a run InGame is absorbing: no key, command or tick taken
\* InGame leaves it; and a character key pressed InGame, the menu keys 1, 2,
\* 3 and n among them, only appends its character to the input buffer: no
\* slot is loaded and nothing is reset.
C19_GameAbsorbing ==
  [][(state = "Game" /\ pc \in {"poll", "tick"}) =>
       /\ state' = "Game"
       /\ ev' = "Char" =>
            /\ \E c \in Chars : input' = Append(input, c)
            /\ UNCHANGED <<resources, last_command, game_slots, current_tool,
                           current_area, messages, message_index>>]_vars

\* C19 witness: InGame, with firestone collected, a menu key has been
\* pressed and is the last character of the input buffer
C19_Witness ==
  /\ state = "Game"
  /\ ev = "Char"
  /\ input \in {<<c>> : c \in MenuKeys}
  /\ resources.firestone > 0
  /\ current_tool = "BlazeHammer"

\* C20: in a run that starts from App::new, with no save file, after any
\* sequence of key events and ticks the tool is Flamestarter, the area is
\* ScorchedPlains, the three slots are empty and emberash, heatcores,
\* sulfur_ore, charcoal_essence and ashen_dust are 0, so that only firestone
\* can be non-zero; and every mine command yields the message of failure.
C20_NewRunNeverAdvances ==
  /\ current_tool = "Flamestarter"
  /\ current_area = "ScorchedPlains"
  /\ game_slots = <<None, None, None>>
  /\ \A r \in DOMAIN resources \ {"firestone"} : resources[r] = 0
  /\ (AfterSubmit /\ Command(last_command) = Mine) =>
       /\ newest[1] = StoredMessage("You need better mining tools!", "Red")
       /\ messages[message_index + 1] = newest[1]

\* C20 witness: in the run from App::new, mine has been submitted after
\* firestone was gained, and has failed
C20_Witness ==
  /\ AfterSubmit
  /\ Command(last_command) = Mine
  /\ resources.firestone > 0
  /\ resources.emberash = 0
  /\ newest[1].content = "You need better mining tools!"
  /\ disk = NoFile

====
